---- MODULE Spec2Model ----
(***************************************************************************)
(* bidiview.nvim.py: the run-reversal transform to_bidi / _bidi and the    *)
(* BidiView plugin object that keeps a mirrored split view of a buffer.    *)
(*                                                                         *)
(* A character is its Unicode code point (a natural number), a line is a   *)
(* sequence of characters, a text is a sequence of lines.                  *)
(***************************************************************************)
EXTENDS Integers, Sequences, FiniteSets, TLC

(* ------------------------------------------------------------------ *)
(* Bounds of the model                                                 *)
(* ------------------------------------------------------------------ *)
\* longest input line of the transform
MaxLen == 4
\* longest line, and most lines, of the inputs of _bidi
MaxLineLen == 2
MaxLines == 2
\* buffers and windows the host hands out before the model stops creating
MaxBuf == 2
MaxWin == 2

(* ------------------------------------------------------------------ *)
(* The pattern of to_bidi: "([\u0600-\u06FF|<U+200C>]+)"              *)
(* ------------------------------------------------------------------ *)
ArabicLo == 1536
ArabicHi == 1791
Pipe == 124
ZWNJ == 8204

\* the class with its range starting one code point early
InClassWide(c) == (c >= ArabicLo - 1 /\ c <= ArabicHi) \/ c = Pipe \/ c = ZWNJ
\* membership in the character class [\u0600-\u06FF|<U+200C>]: the range,
\* a literal '|', and U+200C
InClass(c) == (c >= ArabicLo /\ c <= ArabicHi) \/ c = Pipe \/ c = ZWNJ

\* s[::-1]
Reverse(s) == [k \in 1..Len(s) |-> s[Len(s) + 1 - k]]

\* a reversal that loses the last character of the run
ReplaceMatchDropLast(run) == Reverse(SubSeq(run, 1, Len(run) - 1))
\* the replacement callback: lambda match: match.group(1)[::-1]
ReplaceMatch(run) == Reverse(run)

\* the greedy "+": the index after the last character of the match that
\* starts at i
RECURSIVE MatchEnd(_, _)
MatchEnd(text, i) ==
    IF i <= Len(text) /\ InClass(text[i]) THEN MatchEnd(text, i + 1) ELSE i

\* re.sub: scan left to right from i; a match is replaced, any other
\* character is copied
RECURSIVE Sub(_, _)
Sub(text, i) ==
    IF i > Len(text) THEN <<>>
    ELSE IF InClass(text[i])
         THEN LET e == MatchEnd(text, i)
              IN  ReplaceMatch(SubSeq(text, i, e - 1)) \o Sub(text, e)
         ELSE <<text[i]>> \o Sub(text, i + 1)

to_bidi(text) == Sub(text, 1)

\* [to_bidi(line) for line in lines], built front to back
RECURSIVE BidiFrom(_, _)
BidiFrom(lines, k) ==
    IF k > Len(lines) THEN <<>>
    ELSE <<to_bidi(lines[k])>> \o BidiFrom(lines, k + 1)

\* a comprehension that filters out the empty results
BidiDropEmpty(lines) ==
    LET all == BidiFrom(lines, 1)
    IN  SelectSeq(all, LAMBDA l : l # <<>>)
\* def _bidi(lines)
_bidi(lines) == BidiFrom(lines, 1)

(* ------------------------------------------------------------------ *)
(* State                                                               *)
(* ------------------------------------------------------------------ *)
VARIABLES
    \* the transform applied to one line: input, latest output, and how
    \* many times to_bidi has been applied
    text, result, stage,
    \* _bidi applied to a list of lines: input and output
    lines, outLines, listDone,
    \* the editor: buffers, windows, current window
    nvim,
    \* the fields of the BidiView object
    bid, wid, view_bid, view_wid, view_wnr,
    \* the kind of handler that ran last ("show", "hide", "text", "cursor";
    \* "user" for a step of the user), whether an exception left it, and
    \* whether it went past its view_valid test into the work it guards
    ev, raised, acted

bidiVars == <<text, result, stage>>
listVars == <<lines, outLines, listDone>>
selfVars == <<bid, wid, view_bid, view_wid, view_wnr>>
pluginVars == <<nvim, bid, wid, view_bid, view_wid, view_wnr, ev, raised, acted>>
vars == <<text, result, stage, lines, outLines, listDone,
          nvim, bid, wid, view_bid, view_wid, view_wnr, ev, raised, acted>>

(* ------------------------------------------------------------------ *)
(* Inputs                                                              *)
(* ------------------------------------------------------------------ *)
\* 'a', '|', U+05FF, U+0600, U+06FF, U+0700, U+200B, U+200C
Alphabet == {97, Pipe, ArabicLo - 1, ArabicLo, ArabicHi, ArabicHi + 1, ZWNJ - 1, ZWNJ}
SeqsUpTo(S, n) == UNION {[1..k -> S] : k \in 0..n}
InputLines == SeqsUpTo(Alphabet, MaxLen)

\* 'a', U+0633 (seen), U+062F (dal)
ListAlphabet == {97, 1587, 1583}
InputLists == SeqsUpTo(SeqsUpTo(ListAlphabet, MaxLineLen), MaxLines)

\* what a user may type into a buffer: "ab" + seen dal + "cd" style texts
EditTexts ==
    { << <<97, 1587, 1583>> >>,
      << <<Pipe, 1587>>, <<>> >> }

(* ------------------------------------------------------------------ *)
(* The editor the plugin talks to                                      *)
(* ------------------------------------------------------------------ *)
BufIds == 1..MaxBuf
WinIds == {1000 + k : k \in 0..(MaxWin - 1)}

\* Python's None (the default of wid, the value nvim.command returns, a
\* failed re.search)
PyNone == -2

SetMin(S) == CHOOSE x \in S : \A y \in S : x <= y

\* the editor at start-up: one window on one named, modifiable buffer
NvimStart(t) ==
    [ bufValid |-> [b \in BufIds |-> b = 1],
      bufLines |-> [b \in BufIds |-> IF b = 1 THEN t ELSE <<>>],
      bufMod   |-> [b \in BufIds |-> b = 1],
      bufName  |-> [b \in BufIds |-> IF b = 1 THEN <<"src">> ELSE <<>>],
      bufHl    |-> [b \in BufIds |-> <<>>],
      nextBuf  |-> 2,
      winValid |-> [w \in WinIds |-> w = 1000],
      winBuf   |-> [w \in WinIds |-> 1],
      nextWin  |-> 1001,
      curwin   |-> 1000 ]

\* a handler's working state: the editor, the object's fields, whether an
\* exception is in flight, the host calls made so far, and the call that
\* the host refuses (0: none)
Ctx(f) ==
    [ nv |-> nvim, bid |-> bid, wid |-> wid, view_bid |-> view_bid,
      view_wid |-> view_wid, view_wnr |-> view_wnr,
      exc |-> FALSE, n |-> 0, failAt |-> f ]

\* one host call: it raises when the host refuses it or when its handles
\* are not valid (ok), and has its effect otherwise; nothing runs while an
\* exception is in flight
Call(c, ok, eff) ==
    IF c.exc THEN c
    ELSE IF c.n + 1 = c.failAt \/ ~ok
         THEN [c EXCEPT !.exc = TRUE, !.n = @ + 1]
         ELSE [eff EXCEPT !.n = c.n + 1]

\* handle 0 names the current window
WinOk(c, w) == w = 0 \/ (w \in WinIds /\ c.nv.winValid[w])
WinOf(c, w) == IF w = 0 THEN c.nv.curwin ELSE w
BufOk(c, b) == b \in BufIds /\ c.nv.bufValid[b]
ValidWins(nv) == {w \in WinIds : nv.winValid[w]}

\* a window is closed; the current window moves on when it was the one
CloseWins(nv, W) ==
    LET left == ValidWins(nv) \ W
    IN  [nv EXCEPT !.winValid = [w \in WinIds |-> w \in left],
                   !.winBuf = [w \in WinIds |-> IF w \in left THEN @[w] ELSE 1],
                   !.curwin = IF @ \in left THEN @ ELSE SetMin(left)]

\* :sp - a new current window on the current buffer
Split(nv) ==
    LET w == nv.nextWin
    IN  [nv EXCEPT !.winValid[w] = TRUE,
                   !.winBuf[w] = nv.winBuf[nv.curwin],
                   !.nextWin = w + 1,
                   !.curwin = w]

\* nvim_create_buf(True, True): a new buffer of one empty line
CreateBuf(nv) ==
    LET b == nv.nextBuf
    IN  [nv EXCEPT !.bufValid[b] = TRUE,
                   !.bufLines[b] = << <<>> >>,
                   !.bufMod[b] = TRUE,
                   !.nextBuf = b + 1]

\* :bwipeout b - the buffer is gone; its windows close, but the last
\* window of the editor stays and shows another buffer
Wipe(nv, b) ==
    LET W == {w \in ValidWins(nv) : nv.winBuf[w] = b}
        keep == IF ValidWins(nv) \subseteq W THEN {nv.curwin} ELSE {}
        other == SetMin({x \in BufIds : nv.bufValid[x] /\ x # b})
        nv1 == [nv EXCEPT !.winBuf = [w \in WinIds |-> IF w \in keep THEN other ELSE @[w]]]
        nv2 == CloseWins(nv1, W \ keep)
    IN  [nv2 EXCEPT !.bufValid[b] = FALSE,
                    !.bufLines[b] = <<>>,
                    !.bufMod[b] = FALSE,
                    !.bufName[b] = <<>>,
                    !.bufHl[b] = <<>>]

(* ------------------------------------------------------------------ *)
(* BidiView                                                            *)
(* ------------------------------------------------------------------ *)
\* statement sequencing: F runs on the state c that the statements before
\* it left
Then(c, F(_)) == CHOOSE r \in {F(x) : x \in {c}} : TRUE

\* the view_valid property; the *_is_valid calls answer, they never raise
ViewValid(c) ==
    IF c.view_wid = -1 THEN FALSE
    ELSE /\ WinOk(c, c.view_wid)
         /\ BufOk(c, c.view_bid)
         /\ WinOk(c, c.wid)
         /\ BufOk(c, c.bid)

view_valid == ViewValid(Ctx(0))

\* a _set_view_text that writes the text as read, without _bidi
SetViewTextRaw(c, t) ==
    Call(c, BufOk(c, c.view_bid) /\ c.nv.bufMod[c.view_bid],
         [c EXCEPT !.nv.bufLines[c.view_bid] = t])
\* nvim_buf_set_lines(view_bid, 0, -1, False, _bidi(text)); the host
\* refuses to change a buffer that is not modifiable
_set_view_text(c, t) ==
    Call(c, BufOk(c, c.view_bid) /\ c.nv.bufMod[c.view_bid],
         [c EXCEPT !.nv.bufLines[c.view_bid] = _bidi(t)])

\* _read_text: nvim_buf_get_lines(bid, 0, -1, False), and the lines it
\* returns
_read_text(c) == Call(c, BufOk(c, c.bid), c)
ReadLines(c) == c.nv.bufLines[c.bid]

_set_view_modifiable(c, modifiable) ==
    Call(c, BufOk(c, c.view_bid),
         [c EXCEPT !.nv.bufMod[c.view_bid] = modifiable])

_update_view(c) ==
    LET c1 == _read_text(c)
        c2 == Then(c1, LAMBDA x : _set_view_modifiable(x, TRUE))
        c3 == Then(c2, LAMBDA x : _set_view_text(x, ReadLines(c)))
        c4 == Then(c3, LAMBDA x : _set_view_modifiable(x, FALSE))
    IN  c4

\* `not wid`
Falsy(w) == w = PyNone \/ w = 0

\* The scrollbind and cursorbind options of the windows, and the filetype
\* of the buffers, are written by the plugin and never read by it: the
\* calls that set them are host calls with no effect on the state below.

\* two :set commands on the current window, or two nvim_win_set_option
\* calls on window w
_set_window_binds(c, w) ==
    IF Falsy(w)
    THEN Then(Call(c, TRUE, c), LAMBDA x : Call(x, TRUE, x))
    ELSE Then(Call(c, WinOk(c, w), c), LAMBDA x : Call(x, WinOk(x, w), x))

\* "noscrollbind" and "nocursorbind" are no option names: the host raises
_unset_window_binds(c, w) ==
    IF Falsy(w)
    THEN Then(Call(c, TRUE, c), LAMBDA x : Call(x, TRUE, x))
    ELSE Then(Call(c, FALSE, c), LAMBDA x : Call(x, FALSE, x))

\* char_dec is the number :ascii prints, or None when its output has none
_multi_dig(char_dec) ==
    IF char_dec # PyNone THEN 1548 <= char_dec /\ char_dec <= 1785 ELSE FALSE

\* cursor is what nvim_win_get_cursor(wid) answers: <<row, column>>
_highlight_cursor(c, cursor, char_dec) ==
    LET y  == IF cursor[1] # 0 THEN cursor[1] - 1 ELSE cursor[1]
        x  == cursor[2]
        e  == IF _multi_dig(char_dec) THEN x + 2 ELSE x + 1
        c1 == Call(c, BufOk(c, c.view_bid), [c EXCEPT !.nv.bufHl[c.view_bid] = <<>>])
        c2 == Then(c1, LAMBDA s : Call(s, WinOk(s, s.wid), s))
        c3 == Then(c2, LAMBDA s : Call(s, TRUE, s))
        c4 == Then(c3, LAMBDA s : Call(s, BufOk(s, s.view_bid),
                                       [s EXCEPT !.nv.bufHl[s.view_bid] = <<y, x, e>>]))
    IN  c4

\* two buffers cannot have one name
NameFree(c, b, name) ==
    \A x \in BufIds : (c.nv.bufValid[x] /\ x # b) => c.nv.bufName[x] # name

\* f"bidi-{buf_name}", where bufname() answers "" for a buffer that is gone
ViewName(c) ==
    <<"bidi-">> \o (IF BufOk(c, c.bid) THEN c.nv.bufName[c.bid] ELSE <<>>)

_set_view_name(c) ==
    LET c1 == Call(c, TRUE, c)
        c2 == Then(c1, LAMBDA s :
                  Call(s, BufOk(s, s.view_bid) /\ NameFree(s, s.view_bid, ViewName(s)),
                       [s EXCEPT !.nv.bufName[s.view_bid] = ViewName(s)]))
        c3 == Then(c2, LAMBDA s : Call(s, BufOk(s, s.bid), s))
        c4 == Then(c3, LAMBDA s :
                  Call(s, BufOk(s, s.view_bid), s))
    IN  c4

\* zero says win_getid(view_wnr), asked about None, answers 0; otherwise it
\* answers the id of the window :sp made
_init_view(c, zero, cursor, char_dec) ==
    LET c1  == _set_window_binds(c, PyNone)
        c2  == Then(c1, LAMBDA s : Call(s, TRUE, [s EXCEPT !.wid = s.nv.curwin]))
        c3  == Then(c2, LAMBDA s :
                   Call(s, s.nv.nextBuf \in BufIds,
                        [s EXCEPT !.nv = CreateBuf(s.nv), !.view_bid = s.nv.nextBuf]))
        c4  == Then(c3, LAMBDA s :
                   Call(s, TRUE, [s EXCEPT !.bid = s.nv.winBuf[s.nv.curwin]]))
        c5  == Then(c4, LAMBDA s :
                   Call(s, s.nv.nextWin \in WinIds,
                        [s EXCEPT !.nv = Split(s.nv), !.view_wnr = PyNone]))
        c6  == Then(c5, LAMBDA s :
                   Call(s, TRUE,
                        [s EXCEPT !.view_wid = IF zero THEN 0 ELSE s.nv.curwin]))
        c7  == Then(c6, LAMBDA s :
                   Call(s, WinOk(s, s.view_wid) /\ BufOk(s, s.view_bid),
                        [s EXCEPT !.nv.winBuf[WinOf(s, s.view_wid)] = s.view_bid]))
        c8  == Then(c7, _update_view)
        c9  == Then(c8, LAMBDA s : _set_window_binds(s, s.view_wid))
        c10 == Then(c9, LAMBDA s : _highlight_cursor(s, cursor, char_dec))
        c11 == Then(c10, _set_view_name)
    IN  c11

\* the host calls of _update_view, and of the try block of hide_bidi_view
UpdateCalls == 4
HideCalls == 4

\* nvim_set_current_win(wid), then :syncbind
BackToSource(c) ==
    LET c1 == Call(c, WinOk(c, c.wid) /\ c.wid # 0, [c EXCEPT !.nv.curwin = c.wid])
        c2 == Then(c1, LAMBDA s : Call(s, TRUE, s))
    IN  c2

\* a show_bidi_view without its view_valid test
ShowAlways(c, zero, cursor, char_dec) ==
    Then(_init_view(c, zero, cursor, char_dec), BackToSource)
\* the body of show_bidi_view
show_bidi_view(c, zero, cursor, char_dec) ==
    IF ~ViewValid(c)
    THEN Then(_init_view(c, zero, cursor, char_dec), BackToSource)
    ELSE c

\* the try block of hide_bidi_view
Teardown(c) ==
    LET t1 == _unset_window_binds(c, c.view_wid)
        t2 == Then(t1, LAMBDA s :
                  Call(s, BufOk(s, s.view_bid),
                       [s EXCEPT !.nv = Wipe(s.nv, s.view_bid)]))
        t3 == Then(t2, LAMBDA s :
                  Call(s, Cardinality(ValidWins(s.nv)) > 1,
                       [s EXCEPT !.nv = CloseWins(s.nv, {s.nv.curwin})]))
    IN  t3

\* a hide_bidi_view with neither except nor finally: view_wid = -1 is the
\* last statement of the teardown
HideNoFinally(c) ==
    Then(Teardown(c), LAMBDA t : IF t.exc THEN t ELSE [t EXCEPT !.view_wid = -1])
\* the body of hide_bidi_view: try (teardown) / except Exception
\* (err_write, which is taken not to raise) / finally (view_wid = -1)
hide_bidi_view(c) ==
    Then(Teardown(c), LAMBDA t : [t EXCEPT !.exc = FALSE, !.view_wid = -1])

\* the body of on_textchanged and of on_textchangedi
OnTextChanged(c) == IF ViewValid(c) THEN _update_view(c) ELSE c

\* the body of highlight_cursor
HighlightCursor(c, cursor, char_dec) ==
    Then(Call(c, TRUE, c), LAMBDA s :
        IF s.exc THEN s
        ELSE IF ~(s.nv.curwin = s.wid) THEN s
        ELSE IF ViewValid(s) THEN _highlight_cursor(s, cursor, char_dec)
        ELSE s)

(* ------------------------------------------------------------------ *)
(* Actions                                                             *)
(* ------------------------------------------------------------------ *)
Cursors == {<<1, 0>>}
CharDecs == {PyNone, 1587}

\* a handler returns (or raises): its working state becomes the state
Commit(r, name, didAct) ==
    /\ nvim' = r.nv
    /\ bid' = r.bid
    /\ wid' = r.wid
    /\ view_bid' = r.view_bid
    /\ view_wid' = r.view_wid
    /\ view_wnr' = r.view_wnr
    /\ ev' = name
    /\ raised' = r.exc
    /\ acted' = didAct
    /\ UNCHANGED <<bidiVars, listVars>>

\* A host call raises when its handles are not valid.  The host may also
\* refuse, for reasons of its own, a call of _update_view or of the teardown
\* in hide_bidi_view: those are the calls whose failure the handlers are
\* written around (the try of hide_bidi_view) or not (_update_view).
ShowFails == {0} \cup {8 + k : k \in 1..UpdateCalls}
UpdateFails == 0..UpdateCalls
HideFails == 0..HideCalls

CmdShowBidiView ==
    IF view_valid
    THEN Commit(show_bidi_view(Ctx(0), FALSE, <<1, 0>>, PyNone), "show", FALSE)
    ELSE /\ nvim.nextBuf \in BufIds
         /\ nvim.nextWin \in WinIds
         /\ \E f \in ShowFails, zero \in BOOLEAN, cursor \in Cursors, d \in CharDecs :
               Commit(show_bidi_view(Ctx(f), zero, cursor, d), "show", TRUE)

CmdHideBidiView ==
    \E f \in HideFails : Commit(hide_bidi_view(Ctx(f)), "hide", TRUE)

on_close ==
    \E f \in HideFails : Commit(hide_bidi_view(Ctx(f)), "hide", TRUE)

on_textchanged ==
    \E f \in IF view_valid THEN UpdateFails ELSE {0} :
        Commit(OnTextChanged(Ctx(f)), "text", view_valid)

on_textchangedi ==
    \E f \in IF view_valid THEN UpdateFails ELSE {0} :
        Commit(OnTextChanged(Ctx(f)), "text", view_valid)

highlight_cursor ==
    \E cursor \in Cursors, d \in CharDecs :
        Commit(HighlightCursor(Ctx(0), cursor, d), "cursor", FALSE)

\* the user, who is not the plugin
UserDoes(nv) ==
    /\ nvim' = nv
    /\ ev' = "user"
    /\ raised' = FALSE
    /\ acted' = FALSE
    /\ UNCHANGED <<selfVars, bidiVars, listVars>>

UserEdit ==
    \E t \in EditTexts :
        LET b == nvim.winBuf[nvim.curwin]
        IN  /\ nvim.bufMod[b]
            /\ nvim.bufLines[b] # t
            /\ UserDoes([nvim EXCEPT !.bufLines[b] = t])

UserGotoWin ==
    \E w \in ValidWins(nvim) :
        /\ w # nvim.curwin
        /\ UserDoes([nvim EXCEPT !.curwin = w])

UserCloseWin ==
    /\ Cardinality(ValidWins(nvim)) > 1
    /\ UserDoes(CloseWins(nvim, {nvim.curwin}))

\* the transform on its own
ApplyToBidi ==
    /\ stage = 0
    /\ result' = to_bidi(text)
    /\ stage' = 1
    /\ UNCHANGED <<text, listVars, pluginVars>>

ApplyToBidiAgain ==
    /\ stage = 1
    /\ result' = to_bidi(result)
    /\ stage' = 2
    /\ UNCHANGED <<text, listVars, pluginVars>>

ApplyBidi ==
    /\ ~listDone
    /\ outLines' = _bidi(lines)
    /\ listDone' = TRUE
    /\ UNCHANGED <<lines, bidiVars, pluginVars>>

(* ------------------------------------------------------------------ *)
(* Specifications                                                      *)
(* ------------------------------------------------------------------ *)
\* BidiView.__init__ in an editor showing text t
PluginInit(t) ==
    /\ nvim = NvimStart(t)
    /\ bid = -1
    /\ view_wid = -1
    /\ view_bid = -1
    /\ view_wnr = -1
    /\ wid = nvim.curwin
    /\ ev = "init"
    /\ raised = FALSE
    /\ acted = FALSE

NoBidi == text = <<>> /\ result = <<>> /\ stage = 0
NoList == lines = <<>> /\ outLines = <<>> /\ listDone = FALSE
FirstText == << <<97, 1587, 1583>> >>

Init == NoBidi /\ NoList /\ \E t \in EditTexts : PluginInit(t)

Next ==
    \/ CmdShowBidiView
    \/ CmdHideBidiView
    \/ on_close
    \/ on_textchanged
    \/ on_textchangedi
    \/ highlight_cursor
    \/ UserEdit
    \/ UserGotoWin
    \/ UserCloseWin

Spec == Init /\ [][Next]_vars

InitToBidi ==
    /\ text \in InputLines
    /\ result = <<>>
    /\ stage = 0
    /\ NoList
    /\ PluginInit(FirstText)

NextToBidi == ApplyToBidi \/ ApplyToBidiAgain

SpecToBidi == InitToBidi /\ [][NextToBidi]_vars

InitBidiLines ==
    /\ lines \in InputLists
    /\ outLines = <<>>
    /\ listDone = FALSE
    /\ NoBidi
    /\ PluginInit(FirstText)

NextBidiLines == ApplyBidi

SpecBidiLines == InitBidiLines /\ [][NextBidiLines]_vars

(* ------------------------------------------------------------------ *)
(* The claims                                                          *)
(* ------------------------------------------------------------------ *)
\* a qualifying character as the specification defines it: a code point in
\* U+0600..U+06FF, or U+200C
Qualifying(ch) == (ch >= ArabicLo /\ ch <= ArabicHi) \/ ch = ZWNJ

\* the maximal span of qualifying characters around position i of L
RunStart(L, i) ==
    SetMin({j \in 1..i : \A k \in j..i : Qualifying(L[k])})
RunEnd(L, i) ==
    CHOOSE j \in i..Len(L) :
        /\ \A k \in i..j : Qualifying(L[k])
        /\ \A m \in i..Len(L) : (\A k \in i..m : Qualifying(L[k])) => m <= j

\* the reference algorithm: qualifying spans reversed in place, the other
\* characters where they were
Reference(L) ==
    [i \in 1..Len(L) |->
        IF Qualifying(L[i]) THEN L[RunStart(L, i) + RunEnd(L, i) - i] ELSE L[i]]

Count(L, ch) == Cardinality({i \in 1..Len(L) : L[i] = ch})
Chars(L) == {L[i] : i \in 1..Len(L)}
NoQualifying(L) == \A i \in 1..Len(L) : ~Qualifying(L[i])

\* C1: for every line L, to_bidi(L) is the result of the reference
\* algorithm (maximal spans of characters in U+0600..U+06FF or U+200C
\* reversed, every other span unchanged, in the original order).
C1_MatchesReference == stage = 1 => result = Reference(text)

\* C2: every character of L that is neither in U+0600..U+06FF nor U+200C is
\* at the same index in to_bidi(L).
C2_OutsideRunsUnchanged ==
    stage = 1 =>
        \A i \in 1..Len(text) :
            ~Qualifying(text[i]) => (i <= Len(result) /\ result[i] = text[i])

\* C3: to_bidi(L) has the length of L and is a permutation of its
\* characters.
C3_Permutation ==
    stage = 1 =>
        /\ Len(result) = Len(text)
        /\ \A ch \in Chars(text) \cup Chars(result) :
               Count(result, ch) = Count(text, ch)

\* C3's case: a line that to_bidi changed.
C3_Witness == stage = 1 /\ result # text /\ Len(text) >= 3

\* C4: to_bidi(to_bidi(L)) = L for every line L, and the qualifying
\* positions of to_bidi(L) are those of L.
C4_InvolutionKeepingRuns ==
    /\ stage = 2 => result = text
    /\ stage = 1 =>
           /\ Len(result) = Len(text)
           /\ \A i \in 1..Len(text) : Qualifying(result[i]) <=> Qualifying(text[i])

\* C5: a line with no character in U+0600..U+06FF and no U+200C, the empty
\* line included, is returned as it is.
C5_NoQualifyingIdentity == (stage = 1 /\ NoQualifying(text)) => result = text

\* C5's case: a line of several characters, none qualifying, a '|' among
\* them, after to_bidi.
C5_Witness ==
    /\ stage = 1
    /\ NoQualifying(text)
    /\ Len(text) >= 3
    /\ \E i \in 1..Len(text) : text[i] = Pipe

\* C6: _bidi returns as many lines as it is given, the k-th of them
\* to_bidi of the k-th input line alone.
C6_LinewiseBidi ==
    listDone =>
        /\ Len(outLines) = Len(lines)
        /\ \A k \in 1..Len(lines) : outLines[k] = to_bidi(lines[k])

\* C6's case: two different lines, the first of them changed by to_bidi.
C6_Witness ==
    /\ listDone
    /\ Len(lines) >= 2
    /\ lines[1] # lines[2]
    /\ outLines[1] # lines[1]

\* C7: when ShowBidiView has built the view and returned, and when a
\* TextChanged or TextChangedI handler that found the view valid has
\* returned, the lines of the view buffer are _bidi of the lines of the
\* source buffer, line for line.
C7_ViewSynchronized ==
    ((ev = "show" \/ ev = "text") /\ acted /\ ~raised) =>
        /\ view_bid \in BufIds
        /\ bid \in BufIds
        /\ Len(nvim.bufLines[view_bid]) = Len(nvim.bufLines[bid])
        /\ nvim.bufLines[view_bid] = _bidi(nvim.bufLines[bid])

\* C7's case: a TextChanged handler has updated a valid view whose text
\* differs from the source text.
C7_Witness ==
    /\ ev = "text"
    /\ acted
    /\ ~raised
    /\ view_valid
    /\ nvim.bufLines[view_bid] # nvim.bufLines[bid]

\* C8: after ShowBidiView has built the view, and after a TextChanged or
\* TextChangedI handler that found the view valid, the view buffer is not
\* modifiable, whether or not a host call of _update_view raised.
C8_ViewUnmodifiable ==
    ((ev = "show" \/ ev = "text") /\ acted /\ view_bid \in BufIds
        /\ nvim.bufValid[view_bid]) => ~nvim.bufMod[view_bid]

\* C9: hide_bidi_view ends with view_wid = -1 and lets no exception out,
\* whatever the teardown calls do; from then on, until ShowBidiView, view_wid
\* stays -1, the view is not valid, and the TextChanged, TextChangedI and
\* CursorMoved handlers change nothing in the editor.
C9_HideAlwaysResets ==
    [][ /\ ev' = "hide" => (view_wid' = -1 /\ ~raised')
        /\ (view_wid = -1 /\ ev' # "show") => (view_wid' = -1 /\ ~view_valid')
        /\ (view_wid = -1 /\ ev' \in {"text", "cursor"}) => nvim' = nvim ]_vars

\* C9's case: the teardown raised and left the view buffer behind, the hide
\* ended with view_wid = -1, and a TextChanged handler ran after it.
C9_Witness ==
    /\ ev = "text"
    /\ view_wid = -1
    /\ view_bid \in BufIds
    /\ nvim.bufValid[view_bid]

\* C10: ShowBidiView on a valid view changes neither the editor nor bid,
\* wid, view_bid, view_wid; a buffer or a window is created only by a
\* ShowBidiView that found no valid view.
C10_ShowOnValidViewIsNoOp ==
    [][ /\ (ev' = "show" /\ view_valid) =>
               UNCHANGED <<nvim, bid, wid, view_bid, view_wid, view_wnr>>
        /\ (nvim'.nextBuf # nvim.nextBuf \/ nvim'.nextWin # nvim.nextWin) =>
               (ev' = "show" /\ ~view_valid) ]_vars

\* C10's case: ShowBidiView has run on a valid view, with the cursor in the
\* view window.
C10_Witness ==
    /\ ev = "show"
    /\ ~acted
    /\ view_valid
    /\ nvim.curwin # wid

====
